---- MODULE Spec2Model ----
(***************************************************************************)
(* PollySynthesizer (vocode/streaming/synthesizer/polly_synthesizer.py).   *)
(*                                                                         *)
(* Two specifications share the variables below.                           *)
(*   SpecAlign  get_message_up_to as a pure function over bounded inputs.  *)
(*   Spec       create_speech_with_cache calls of one synthesizer: the     *)
(*              asyncio event loop, the one-worker ThreadPoolExecutor, the  *)
(*              chunk_generator of each call and its consumer.             *)
(***************************************************************************)
EXTENDS Integers, Sequences, FiniteSets, TLC

(* ------------------------------ bounds --------------------------------- *)

\* longest audio stream, in bytes
MaxAudioLen == 3
\* largest chunk_size a caller passes
MaxChunk == 2
\* longest word_events list drawn in SpecAlign
MaxEvents == 2
\* elapsed seconds are modelled as multiples of 1/SecondsDen second
SecondsDen == 2
\* largest elapsed time asked of a SynthesisResult, in 1/SecondsDen seconds
MaxElapsed == 1

(* ------------------------- program constants --------------------------- *)

\* "time field is in ms": seconds * 1000
MsPerSecond == 1000
\* ThreadPoolExecutor(max_workers=1)
max_workers == 1

None == "None"

Min(a, b) == IF a < b THEN a ELSE b

(* ------------------------- get_message_up_to --------------------------- *)

HelloWorld == <<"h", "e", "l", "l", "o", " ", "w", "o", "r", "l", "d">>
Messages == {HelloWorld, <<"h", "i">>}

\* Python message[:k] for an offset k >= 0: the first k characters, all of
\* them when k exceeds the length
PySliceTo(message, k) == SubSeq(message, 1, Min(k, Len(message)))

\* mutants of TimeAfter: the boundary counted as not yet spoken; the
\* comparison turned round
TimeAfterOrAt(time, secs) == time * SecondsDen >= secs * MsPerSecond
TimeBefore(time, secs) == time * SecondsDen < secs * MsPerSecond
\* event["time"] > seconds * 1000, seconds being secs/SecondsDen
TimeAfter(time, secs) == time * SecondsDen > secs * MsPerSecond

\* the for loop of get_message_up_to from index i on
RECURSIVE ScanFrom(_, _, _, _)
ScanFrom(message, secs, word_events, i) ==
    IF i > Len(word_events) THEN message
    ELSE IF TimeAfter(word_events[i].time, secs)
         THEN PySliceTo(message, word_events[i].start)
         ELSE ScanFrom(message, secs, word_events, i + 1)

get_message_up_to(message, secs, word_events) ==
    ScanFrom(message, secs, word_events, 1)

IsPrefix(s, t) == Len(s) <= Len(t) /\ SubSeq(t, 1, Len(s)) = s

(* ------------------------------- state --------------------------------- *)

\* concurrent create_speech_with_cache calls on the one synthesizer
Calls == {1, 2}

VARIABLES
    should_encode_as_wav, \* synthesizer_config.should_encode_as_wav
    synth,         \* the PollySynthesizer instance: outcome of __init__
    requests,      \* per call: the synthesize_speech requests sent to Polly
    pc,            \* per call: where its coroutine / its generator stands
    text,          \* per call: message.text
    chunk_size,    \* per call: the chunk_size argument
    result,        \* per call: outcome of the executor future it awaits
    audio_stream,  \* per call: the AudioStream of the audio response
    marks_stream,  \* per call: the AudioStream of the speech marks response
    word_events,   \* per call: the parsed word events
    chunks,        \* per call: the ChunkResults yielded so far, in order
    lastPull,      \* per call: how the consumer's latest __anext__ ended
    reads,         \* per call: the thread of every read done on audio_stream
    outstanding,   \* per call: reads of audio_stream issued and not finished
    alignOut,      \* the latest get_message_up_to call made through a result
    error,         \* per call: the exception create_speech_with_cache raised
    queue,         \* thread_pool_executor: work items not yet started
    running,       \* thread_pool_executor: work items a worker is running
    loopBlocked,   \* the call whose blocking read holds the event loop, or 0
    al             \* SpecAlign: inputs and outputs of get_message_up_to

callVars == <<pc, text, chunk_size, result, error>>
streamVars == <<audio_stream, marks_stream, word_events>>
genVars == <<chunks, lastPull, reads, outstanding>>
execVars == <<queue, running>>
vars == <<should_encode_as_wav, synth, requests, callVars, streamVars, genVars, execVars,
          loopBlocked, alignOut, al>>

Job(kind, u) == [kind |-> kind, call |-> u]

\* a fresh audio stream of n bytes for call u; every byte is distinct
NewStream(u, n) ==
    [id |-> u, data |-> [i \in 1..n |-> 100 * u + i], pos |-> 0, closes |-> 0]
\* no stream yet (id 0)
NoStream == [id |-> 0, data |-> <<>>, pos |-> 0, closes |-> 0]

\* the executor future a coroutine awaits
Pending == [done |-> FALSE, ok |-> FALSE, value |-> <<>>]
Returned(v) == [done |-> TRUE, ok |-> TRUE, value |-> v]
Raised(e) == [done |-> TRUE, ok |-> FALSE, value |-> e]

\* no get_message_up_to call made yet through the result
NoAlign == [call |-> 0, seconds |-> 0, prefix |-> <<>>]

\* mutant of ReadBytes: one byte more than asked for
ReadBytesOneMore(stream, amt) ==
    SubSeq(stream.data, stream.pos + 1,
           Min(stream.pos + amt + 1, Len(stream.data)))
\* stream.read(amt): up to amt bytes from the current position
ReadBytes(stream, amt) ==
    SubSeq(stream.data, stream.pos + 1, Min(stream.pos + amt, Len(stream.data)))
\* mutant of AfterRead: the position moves one byte past the bytes read
AfterReadSkips(stream, amt) ==
    [stream EXCEPT !.pos = Min(stream.pos + amt + 1, Len(stream.data))]
\* the stream after stream.read(amt): the position is behind the bytes read
AfterRead(stream, amt) ==
    [stream EXCEPT !.pos = Min(stream.pos + amt, Len(stream.data))]

\* records of a speech marks stream: one per line
Word(t, s) == [kind |-> "word", time |-> t, start |-> s]
Blank == [kind |-> "blank"]
Bad == [kind |-> "bad"]
MarkStreams ==
    { <<Word(0, 0), Blank, Word(500, 6)>>,
      <<Word(500, 1), Bad>> }
\* the speech marks streams Polly may answer a text with: they follow the
\* words of the text
SpeechMarksOf(message) ==
    IF Len(message) = Len(<<"h", "i">>) THEN {<<Word(0, 0)>>, <<Word(500, 1), Bad>>}
    ELSE MarkStreams

\* .read().decode().split() with the "if v" filter: the non-blank records
SplitRecords(lines) == SelectSeq(lines, LAMBDA v : v.kind # "blank")
\* json.loads(v) raises on a record that is no JSON
Decodable(v) == v.kind = "word"
json_loads(v) == [time |-> v.time, start |-> v.start]

\* encode_as_wav(chunk, config): the chunk behind a WAV header
WavHeader == <<0>>
encode_as_wav(chunk) == WavHeader \o chunk
chunk_transform(chunk) ==
    IF should_encode_as_wav THEN encode_as_wav(chunk) ELSE chunk

\* mutant of ShortRead: only an empty read counts as the end
EmptyRead(audio_buffer, c) == Len(audio_buffer) = 0
\* len(audio_buffer) != chunk_size
ShortRead(audio_buffer, c) == Len(audio_buffer) # c

\* mutant of ChunkResult: every chunk flagged as the last
ChunkResultAlwaysLast(audio_buffer, is_last) ==
    [chunk |-> chunk_transform(audio_buffer), is_last |-> TRUE]
\* mutant of ChunkResult: the final chunk is yielded without the transform
ChunkResultRawFinal(audio_buffer, is_last) ==
    [chunk |-> IF is_last THEN audio_buffer ELSE chunk_transform(audio_buffer),
     is_last |-> is_last]
\* SynthesisResult.ChunkResult(chunk_transform(audio_buffer), is_last)
ChunkResult(audio_buffer, is_last) ==
    [chunk |-> chunk_transform(audio_buffer), is_last |-> is_last]

LoopFree == loopBlocked = 0

AlignIdle ==
    [message |-> <<>>, events |-> <<>>, e1 |-> 0, e2 |-> 0,
     r1 |-> <<>>, r2 |-> <<>>, done |-> FALSE]

\* "AWS Polly supports sampling rate of 8k and 16k for pcm output"
SupportedRates == {8000, 16000}
\* sampling rates a synthesizer_config is modelled with
SamplingRates == {8000, 16000, 22050}

\* no PollySynthesizer constructed yet
NoSynth == [state |-> "none", asked |-> 0, sampling_rate |-> 0, error |-> <<>>]
\* mutant of Constructed: the rate is taken over without the check
ConstructedUnchecked(rate) ==
    [state |-> "ready", asked |-> rate, sampling_rate |-> rate, error |-> <<>>]
\* PollySynthesizer(synthesizer_config) with config.sampling_rate = rate: the
\* instance, or the Exception raised for a rate Polly does not support
Constructed(rate) ==
    IF rate \notin SupportedRates
    THEN [state |-> "failed", asked |-> rate, sampling_rate |-> 0,
          error |-> <<"Sampling rate not supported by AWS Polly", rate>>]
    ELSE [state |-> "ready", asked |-> rate, sampling_rate |-> rate,
          error |-> <<>>]

Init ==
    /\ should_encode_as_wav \in BOOLEAN
    /\ synth = Constructed(16000)
    /\ requests = [u \in Calls |-> <<>>]
    /\ pc = [u \in Calls |-> "idle"]
    /\ text = [u \in Calls |-> <<>>]
    /\ chunk_size = [u \in Calls |-> 0]
    /\ result = [u \in Calls |-> Pending]
    /\ audio_stream = [u \in Calls |-> NoStream]
    /\ marks_stream = [u \in Calls |-> <<>>]
    /\ word_events = [u \in Calls |-> <<>>]
    /\ chunks = [u \in Calls |-> <<>>]
    /\ lastPull = [u \in Calls |-> None]
    /\ reads = [u \in Calls |-> <<>>]
    /\ outstanding = [u \in Calls |-> 0]
    /\ alignOut = NoAlign
    /\ error = [u \in Calls |-> None]
    /\ queue = <<>>
    /\ running = {}
    /\ loopBlocked = 0
    /\ al = AlignIdle

(* ----------------------- thread_pool_executor -------------------------- *)

\* self.client.synthesize_speech(Text=message, OutputFormat=...,
\* SampleRate=str(self.sampling_rate), ...) as sent for call u
synthesize_speech(kind, u) ==
    [OutputFormat |-> IF kind = "synthesize" THEN "pcm" ELSE "json",
     Text |-> text[u],
     SampleRate |-> synth.sampling_rate]

\* run_in_executor(self.thread_pool_executor, ...): the work item is queued
Submit(kind, u) == Append(queue, Job(kind, u))

\* a free worker thread takes the oldest work item
WorkerStart ==
    /\ Cardinality(running) < max_workers
    /\ queue # <<>>
    /\ running' = running \cup {Head(queue)}
    /\ queue' = Tail(queue)
    /\ requests' =
          IF Head(queue).kind \in {"synthesize", "get_speech_marks"}
          THEN [requests EXCEPT ![Head(queue).call] =
                   Append(@, synthesize_speech(Head(queue).kind, Head(queue).call))]
          ELSE requests
    /\ UNCHANGED <<should_encode_as_wav, synth, callVars, streamVars, genVars,
                   loopBlocked, alignOut, al>>

\* self.synthesize(message.text) returns a response with an AudioStream of
\* n bytes, or the client raises
WorkerSynthesize(u, n, ok) ==
    /\ Job("synthesize", u) \in running
    /\ running' = running \ {Job("synthesize", u)}
    /\ result' = [result EXCEPT ![u] =
           IF ok THEN Returned(NewStream(u, n)) ELSE Raised("CollaboratorError")]
    /\ UNCHANGED <<should_encode_as_wav, synth, requests, pc, text, chunk_size, error,
                   streamVars, genVars, queue, loopBlocked, alignOut, al>>

\* self.get_speech_marks(message.text) returns a response whose AudioStream
\* holds the records lines, or the client raises
WorkerSpeechMarks(u, lines, ok) ==
    /\ Job("get_speech_marks", u) \in running
    /\ running' = running \ {Job("get_speech_marks", u)}
    /\ result' = [result EXCEPT ![u] =
           IF ok THEN Returned(lines) ELSE Raised("CollaboratorError")]
    /\ UNCHANGED <<should_encode_as_wav, synth, requests, pc, text, chunk_size, error,
                   streamVars, genVars, queue, loopBlocked, alignOut, al>>

\* mutant of WorkerRead: the stream is kept on the synthesizer, where the
\* other call's stream replaces it
WorkerReadShared(u) ==
    LET fetched == {v \in Calls : audio_stream[v].id # 0}
        shared == CHOOSE v \in fetched : \A w \in fetched : w <= v
    IN  /\ Job("read", u) \in running
        /\ running' = running \ {Job("read", u)}
        /\ audio_stream' =
              [audio_stream EXCEPT ![shared] = AfterRead(@, chunk_size[u])]
        /\ reads' = [reads EXCEPT ![u] = Append(@, "executor")]
        /\ outstanding' = [outstanding EXCEPT ![u] = @ - 1]
        /\ result' = [result EXCEPT ![u] =
               IF pc[u] = "awaitRead"
               THEN Returned(ReadBytes(audio_stream[shared], chunk_size[u]))
               ELSE @]
        /\ UNCHANGED <<should_encode_as_wav, synth, requests, pc, text,
                       chunk_size, error, marks_stream, word_events, chunks,
                       lastPull, queue, loopBlocked, alignOut, al>>

\* lambda: audio_stream.read(chunk_size) on the worker thread; a generator
\* cancelled meanwhile no longer takes the bytes
WorkerRead(u) ==
    /\ Job("read", u) \in running
    /\ running' = running \ {Job("read", u)}
    /\ audio_stream' = [audio_stream EXCEPT ![u] = AfterRead(@, chunk_size[u])]
    /\ reads' = [reads EXCEPT ![u] = Append(@, "executor")]
    /\ outstanding' = [outstanding EXCEPT ![u] = @ - 1]
    /\ result' = [result EXCEPT ![u] =
           IF pc[u] = "awaitRead"
           THEN Returned(ReadBytes(audio_stream[u], chunk_size[u])) ELSE @]
    /\ UNCHANGED <<should_encode_as_wav, synth, requests, pc, text, chunk_size, error,
                   marks_stream, word_events, chunks, lastPull, queue,
                   loopBlocked, alignOut, al>>

(* --------------------- create_speech_with_cache ------------------------ *)

\* the call starts: the audio request goes to the executor and the
\* coroutine awaits it
\* mutant of Call: both requests go to the executor before either is awaited
CallSubmitsBoth(u, m, c) ==
    /\ LoopFree
    /\ synth.state = "ready"
    /\ pc[u] = "idle"
    /\ text' = [text EXCEPT ![u] = m]
    /\ chunk_size' = [chunk_size EXCEPT ![u] = c]
    /\ queue' = Append(Submit("synthesize", u), Job("get_speech_marks", u))
    /\ pc' = [pc EXCEPT ![u] = "awaitAudio"]
    /\ UNCHANGED <<should_encode_as_wav, synth, requests, result, error, streamVars, genVars,
                   running, loopBlocked, alignOut, al>>

Call(u, m, c) ==
    /\ LoopFree
    /\ synth.state = "ready"
    /\ pc[u] = "idle"
    /\ text' = [text EXCEPT ![u] = m]
    /\ chunk_size' = [chunk_size EXCEPT ![u] = c]
    /\ queue' = Submit("synthesize", u)
    /\ pc' = [pc EXCEPT ![u] = "awaitAudio"]
    /\ UNCHANGED <<should_encode_as_wav, synth, requests, result, error, streamVars, genVars,
                   running, loopBlocked, alignOut, al>>

\* mutant of ResumeAudio: a failed audio request is sent again
ResumeAudioRetries(u) ==
    /\ LoopFree
    /\ pc[u] = "awaitAudio"
    /\ result[u].done
    /\ result' = [result EXCEPT ![u] = Pending]
    /\ IF result[u].ok
       THEN /\ audio_stream' = [audio_stream EXCEPT ![u] = result[u].value]
            /\ queue' = Submit("get_speech_marks", u)
            /\ pc' = [pc EXCEPT ![u] = "awaitMarks"]
       ELSE /\ queue' = Submit("synthesize", u)
            /\ UNCHANGED <<audio_stream, pc>>
    /\ UNCHANGED <<should_encode_as_wav, synth, requests, text, chunk_size,
                   error, marks_stream, word_events, genVars, running,
                   loopBlocked, alignOut, al>>

\* mutant of ResumeAudio: the speech marks request is sent but not awaited,
\* the result is handed out at once
ResumeAudioNoAwait(u) ==
    /\ LoopFree
    /\ pc[u] = "awaitAudio"
    /\ result[u].done
    /\ result' = [result EXCEPT ![u] = Pending]
    /\ IF result[u].ok
       THEN /\ audio_stream' = [audio_stream EXCEPT ![u] = result[u].value]
            /\ queue' = Submit("get_speech_marks", u)
            /\ pc' = [pc EXCEPT ![u] = "returned"]
            /\ UNCHANGED error
       ELSE /\ error' = [error EXCEPT ![u] = result[u].value]
            /\ pc' = [pc EXCEPT ![u] = "raised"]
            /\ UNCHANGED <<audio_stream, queue>>
    /\ UNCHANGED <<should_encode_as_wav, synth, requests, text, chunk_size, marks_stream,
                   word_events, genVars, running, loopBlocked, alignOut, al>>

\* the audio response arrived: keep its AudioStream and send the speech
\* marks request to the executor; a raised request ends the call
ResumeAudio(u) ==
    /\ LoopFree
    /\ pc[u] = "awaitAudio"
    /\ result[u].done
    /\ result' = [result EXCEPT ![u] = Pending]
    /\ IF result[u].ok
       THEN /\ audio_stream' = [audio_stream EXCEPT ![u] = result[u].value]
            /\ queue' = Submit("get_speech_marks", u)
            /\ pc' = [pc EXCEPT ![u] = "awaitMarks"]
            /\ UNCHANGED error
       ELSE /\ error' = [error EXCEPT ![u] = result[u].value]
            /\ pc' = [pc EXCEPT ![u] = "raised"]
            /\ UNCHANGED <<audio_stream, queue>>
    /\ UNCHANGED <<should_encode_as_wav, synth, requests, text, chunk_size, marks_stream,
                   word_events, genVars, running, loopBlocked, alignOut, al>>

\* the speech marks response arrived: the coroutine starts reading its
\* AudioStream on the event loop thread
ResumeMarks(u) ==
    /\ LoopFree
    /\ pc[u] = "awaitMarks"
    /\ result[u].done
    /\ result' = [result EXCEPT ![u] = Pending]
    /\ IF result[u].ok
       THEN /\ marks_stream' = [marks_stream EXCEPT ![u] = result[u].value]
            /\ loopBlocked' = u
            /\ pc' = [pc EXCEPT ![u] = "readMarks"]
            /\ UNCHANGED error
       ELSE /\ error' = [error EXCEPT ![u] = result[u].value]
            /\ pc' = [pc EXCEPT ![u] = "raised"]
            /\ UNCHANGED <<marks_stream, loopBlocked>>
    /\ UNCHANGED <<should_encode_as_wav, synth, requests, text, chunk_size, audio_stream,
                   word_events, genVars, execVars, alignOut, al>>

\* word_events = [json.loads(v) for v in ....read().decode().split() if v]
ParseWordEvents(lines) ==
    LET records == SplitRecords(lines)
    IN  [i \in 1..Len(records) |-> json_loads(records[i])]

\* mutant of ParseAndReturn: an undecodable record is skipped and the
\* result is returned with the events that could be decoded
ParseAndReturnSkipsBad(u) ==
    /\ pc[u] = "readMarks"
    /\ loopBlocked' = 0
    /\ word_events' =
          [word_events EXCEPT ![u] =
              ParseWordEvents(SelectSeq(marks_stream[u], Decodable))]
    /\ pc' = [pc EXCEPT ![u] = "returned"]
    /\ UNCHANGED <<should_encode_as_wav, synth, requests, text, chunk_size,
                   result, error, audio_stream, marks_stream, genVars,
                   execVars, alignOut, al>>

\* the speech marks are read and parsed, the generator is created and the
\* SynthesisResult is returned; an undecodable record raises instead
\* mutant of ParseAndReturn: the first read is sent to the executor as soon
\* as the result is built, before any pull
ParseAndReturnEagerRead(u) ==
    /\ pc[u] = "readMarks"
    /\ loopBlocked' = 0
    /\ IF \A i \in 1..Len(marks_stream[u]) :
             marks_stream[u][i].kind = "blank" \/ Decodable(marks_stream[u][i])
       THEN /\ word_events' =
                [word_events EXCEPT ![u] = ParseWordEvents(marks_stream[u])]
            /\ pc' = [pc EXCEPT ![u] = "returned"]
            /\ queue' = Submit("read", u)
            /\ outstanding' = [outstanding EXCEPT ![u] = @ + 1]
            /\ UNCHANGED error
       ELSE /\ error' = [error EXCEPT ![u] = "JSONDecodeError"]
            /\ pc' = [pc EXCEPT ![u] = "raised"]
            /\ UNCHANGED <<word_events, queue, outstanding>>
    /\ UNCHANGED <<should_encode_as_wav, synth, requests, text, chunk_size, result,
                   audio_stream, marks_stream, chunks, lastPull, reads,
                   running, alignOut, al>>

ParseAndReturn(u) ==
    /\ pc[u] = "readMarks"
    /\ loopBlocked' = 0
    /\ IF \A i \in 1..Len(marks_stream[u]) :
             marks_stream[u][i].kind = "blank" \/ Decodable(marks_stream[u][i])
       THEN /\ word_events' =
                [word_events EXCEPT ![u] = ParseWordEvents(marks_stream[u])]
            /\ pc' = [pc EXCEPT ![u] = "returned"]
            /\ UNCHANGED error
       ELSE /\ error' = [error EXCEPT ![u] = "JSONDecodeError"]
            /\ pc' = [pc EXCEPT ![u] = "raised"]
            /\ UNCHANGED word_events
    /\ UNCHANGED <<should_encode_as_wav, synth, requests, text, chunk_size, result,
                   audio_stream, marks_stream, genVars, execVars, alignOut, al>>

(* --------------------------- chunk_generator --------------------------- *)

\* yield SynthesisResult.ChunkResult(chunk_transform(audio_buffer), ...):
\* the generator suspends at the yield of the branch the read length chose
Yield(u, audio_buffer) ==
    LET is_last == ShortRead(audio_buffer, chunk_size[u])
    IN  /\ chunks' = [chunks EXCEPT ![u] = Append(@, ChunkResult(audio_buffer, is_last))]
        /\ lastPull' = [lastPull EXCEPT ![u] = "chunk"]
        /\ pc' = [pc EXCEPT ![u] = IF is_last THEN "yieldedFinal" ELSE "yielded"]

\* first __anext__: the generator starts and sends its first read to the
\* executor
PullFirst(u) ==
    /\ LoopFree
    /\ pc[u] = "returned"
    /\ queue' = Submit("read", u)
    /\ outstanding' = [outstanding EXCEPT ![u] = @ + 1]
    /\ pc' = [pc EXCEPT ![u] = "awaitRead"]
    /\ UNCHANGED <<should_encode_as_wav, synth, requests, text, chunk_size, result, error,
                   streamVars, chunks, lastPull, reads, running, loopBlocked,
                   alignOut, al>>

\* the first read came back from the executor: yield its chunk
ResumeRead(u) ==
    /\ LoopFree
    /\ pc[u] = "awaitRead"
    /\ result[u].done
    /\ result' = [result EXCEPT ![u] = Pending]
    /\ Yield(u, result[u].value)
    /\ UNCHANGED <<should_encode_as_wav, synth, requests, text, chunk_size, error, streamVars,
                   reads, outstanding, execVars, loopBlocked, alignOut, al>>

\* a later __anext__: the generator resumes in the while loop and calls
\* audio_stream.read(chunk_size) itself, on the event loop thread
PullNext(u) ==
    /\ LoopFree
    /\ pc[u] = "yielded"
    /\ loopBlocked' = u
    /\ outstanding' = [outstanding EXCEPT ![u] = @ + 1]
    /\ pc' = [pc EXCEPT ![u] = "inlineRead"]
    /\ UNCHANGED <<should_encode_as_wav, synth, requests, text, chunk_size, result, error,
                   streamVars, chunks, lastPull, reads, execVars, alignOut, al>>

\* mutant of InlineRead: the loop breaks on the short read before yielding
\* the final chunk
InlineReadDropsFinal(u) ==
    /\ pc[u] = "inlineRead"
    /\ loopBlocked' = 0
    /\ audio_stream' = [audio_stream EXCEPT ![u] = AfterRead(@, chunk_size[u])]
    /\ reads' = [reads EXCEPT ![u] = Append(@, "loop")]
    /\ outstanding' = [outstanding EXCEPT ![u] = @ - 1]
    /\ IF ShortRead(ReadBytes(audio_stream[u], chunk_size[u]), chunk_size[u])
       THEN /\ pc' = [pc EXCEPT ![u] = "finished"]
            /\ lastPull' = [lastPull EXCEPT ![u] = "StopAsyncIteration"]
            /\ UNCHANGED chunks
       ELSE Yield(u, ReadBytes(audio_stream[u], chunk_size[u]))
    /\ UNCHANGED <<should_encode_as_wav, synth, requests, text, chunk_size,
                   result, error, marks_stream, word_events, execVars,
                   alignOut, al>>

\* that read returns and its chunk is yielded
InlineRead(u) ==
    /\ pc[u] = "inlineRead"
    /\ loopBlocked' = 0
    /\ audio_stream' = [audio_stream EXCEPT ![u] = AfterRead(@, chunk_size[u])]
    /\ reads' = [reads EXCEPT ![u] = Append(@, "loop")]
    /\ outstanding' = [outstanding EXCEPT ![u] = @ - 1]
    /\ Yield(u, ReadBytes(audio_stream[u], chunk_size[u]))
    /\ UNCHANGED <<should_encode_as_wav, synth, requests, text, chunk_size, result, error,
                   marks_stream, word_events, execVars, alignOut, al>>

\* mutant of PullAfterFinal: no return/break after the final yield, the
\* generator reads on
PullAfterFinalReadsOn(u) ==
    /\ LoopFree
    /\ pc[u] \in {"yieldedFinal", "finished", "closed"}
    /\ IF pc[u] = "yieldedFinal"
       THEN /\ loopBlocked' = u
            /\ outstanding' = [outstanding EXCEPT ![u] = @ + 1]
            /\ pc' = [pc EXCEPT ![u] = "inlineRead"]
            /\ UNCHANGED lastPull
       ELSE /\ lastPull' = [lastPull EXCEPT ![u] = "StopAsyncIteration"]
            /\ UNCHANGED <<loopBlocked, outstanding, pc>>
    /\ UNCHANGED <<should_encode_as_wav, synth, requests, text, chunk_size, result, error,
                   streamVars, chunks, reads, execVars, alignOut, al>>

\* __anext__ after the final chunk: the generator runs into its return or
\* break and ends; an ended or closed generator stays so. Each time the
\* consumer gets StopAsyncIteration.
PullAfterFinal(u) ==
    /\ LoopFree
    /\ pc[u] \in {"yieldedFinal", "finished", "closed"}
    /\ pc' = [pc EXCEPT ![u] = IF @ = "yieldedFinal" THEN "finished" ELSE @]
    /\ lastPull' = [lastPull EXCEPT ![u] = "StopAsyncIteration"]
    /\ UNCHANGED <<should_encode_as_wav, synth, requests, text, chunk_size, result, error,
                   streamVars, chunks, reads, outstanding, execVars,
                   loopBlocked, alignOut, al>>

\* the consumer drops the sequence (aclose) while the generator is not
\* started or is suspended at a yield: GeneratorExit ends it there
Abandon(u) ==
    /\ LoopFree
    /\ pc[u] \in {"returned", "yielded", "yieldedFinal"}
    /\ pc' = [pc EXCEPT ![u] = "closed"]
    /\ UNCHANGED <<should_encode_as_wav, synth, requests, text, chunk_size, result, error,
                   streamVars, genVars, execVars, loopBlocked, alignOut, al>>

\* the consumer is cancelled while the generator awaits its first read: a
\* work item not yet started is cancelled with the future, a started one
\* runs on
Cancel(u) ==
    /\ LoopFree
    /\ pc[u] = "awaitRead"
    /\ pc' = [pc EXCEPT ![u] = "closed"]
    /\ result' = [result EXCEPT ![u] = Pending]
    /\ queue' = SelectSeq(queue, LAMBDA j : j # Job("read", u))
    /\ outstanding' = [outstanding EXCEPT ![u] =
           IF \E i \in 1..Len(queue) : queue[i] = Job("read", u) THEN @ - 1 ELSE @]
    /\ UNCHANGED <<should_encode_as_wav, synth, requests, text, chunk_size, error, streamVars,
                   chunks, lastPull, reads, running, loopBlocked, alignOut, al>>

\* mutant of AlignText: word_events is a one-shot iterator the call uses up
AlignTextConsumes(u, secs) ==
    /\ LoopFree
    /\ pc[u] \in {"returned", "awaitRead", "yielded", "yieldedFinal",
                  "finished", "closed"}
    /\ alignOut' =
           [call |-> u, seconds |-> secs,
            prefix |-> get_message_up_to(text[u], secs, word_events[u])]
    /\ word_events' = [word_events EXCEPT ![u] = <<>>]
    /\ UNCHANGED <<should_encode_as_wav, synth, requests, callVars, audio_stream, marks_stream,
                   genVars, execVars, loopBlocked, al>>

\* the lambda of the SynthesisResult, called with seconds = secs/SecondsDen
AlignText(u, secs) ==
    /\ LoopFree
    /\ pc[u] \in {"returned", "awaitRead", "yielded", "yieldedFinal",
                  "finished", "closed"}
    /\ alignOut' =
           [call |-> u, seconds |-> secs,
            prefix |-> get_message_up_to(text[u], secs, word_events[u])]
    /\ UNCHANGED <<should_encode_as_wav, synth, requests, callVars, streamVars, genVars,
                   execVars, loopBlocked, al>>

\* the text each modelled call is made with
TextOf(u) == IF u = 1 THEN HelloWorld ELSE <<"h", "i">>

Next ==
    \/ WorkerStart
    \/ \E u \in Calls :
          \/ \E c \in 1..MaxChunk : Call(u, TextOf(u), c)
          \/ \E n \in 0..MaxAudioLen, ok \in BOOLEAN : WorkerSynthesize(u, n, ok)
          \/ \E lines \in SpeechMarksOf(text[u]), ok \in BOOLEAN :
                WorkerSpeechMarks(u, lines, ok)
          \/ WorkerRead(u)
          \/ ResumeAudio(u)
          \/ ResumeMarks(u)
          \/ ParseAndReturn(u)
          \/ PullFirst(u)
          \/ ResumeRead(u)
          \/ PullNext(u)
          \/ InlineRead(u)
          \/ PullAfterFinal(u)
          \/ Abandon(u)
          \/ Cancel(u)
          \/ \E secs \in 0..MaxElapsed : AlignText(u, secs)

Spec == Init /\ [][Next]_vars

(* ------------------- SpecAlign: get_message_up_to ---------------------- *)

EventTimes == {0, 500, 1000}
EventStarts == {0, 2, 6}
Events == [time : EventTimes, start : EventStarts]
EventLists == UNION {[1..k -> Events] : k \in 0..MaxEvents}
\* elapsed times asked, in 1/SecondsDen seconds: up to MaxElapsed, and 10 s
ElapsedTimes == (0..MaxElapsed) \cup {10 * SecondsDen}

InitAlign ==
    /\ should_encode_as_wav = FALSE
    /\ synth = Constructed(16000)
    /\ requests = [u \in Calls |-> <<>>]
    /\ pc = [u \in Calls |-> "idle"]
    /\ text = [u \in Calls |-> <<>>]
    /\ chunk_size = [u \in Calls |-> 0]
    /\ result = [u \in Calls |-> Pending]
    /\ audio_stream = [u \in Calls |-> NoStream]
    /\ marks_stream = [u \in Calls |-> <<>>]
    /\ word_events = [u \in Calls |-> <<>>]
    /\ chunks = [u \in Calls |-> <<>>]
    /\ lastPull = [u \in Calls |-> None]
    /\ reads = [u \in Calls |-> <<>>]
    /\ outstanding = [u \in Calls |-> 0]
    /\ alignOut = NoAlign
    /\ error = [u \in Calls |-> None]
    /\ queue = <<>>
    /\ running = {}
    /\ loopBlocked = 0
    /\ \E m \in Messages, ev \in EventLists, e1 \in ElapsedTimes, e2 \in ElapsedTimes :
          al = [message |-> m, events |-> ev, e1 |-> e1, e2 |-> e2,
                r1 |-> <<>>, r2 |-> <<>>, done |-> FALSE]

\* get_message_up_to is called for both elapsed times
Resolve ==
    /\ ~al.done
    /\ al' = [al EXCEPT !.r1 = get_message_up_to(al.message, al.e1, al.events),
                        !.r2 = get_message_up_to(al.message, al.e2, al.events),
                        !.done = TRUE]
    /\ UNCHANGED <<should_encode_as_wav, synth, requests, callVars, streamVars, genVars,
                   execVars, loopBlocked, alignOut>>

NextAlign == Resolve

SpecAlign == InitAlign /\ [][NextAlign]_vars

(* ------------------------------ claims --------------------------------- *)

\* the events of events, by index, whose time lies strictly after
\* secs/SecondsDen seconds
LaterEvents(events, secs) ==
    {i \in 1..Len(events) :
        events[i].time * SecondsDen > secs * MsPerSecond}
\* the prefix the contract of get_message_up_to asks for: the message cut at
\* the start of the earliest-listed later event, the whole message without one
ExpectedPrefix(message, secs, events) ==
    LET later == LaterEvents(events, secs)
    IN  IF later = {} THEN message
        ELSE LET first == CHOOSE i \in later : \A j \in later : i <= j
                 cut == events[first].start
             IN  [k \in 1..(IF cut < Len(message) THEN cut ELSE Len(message))
                     |-> message[k]]

ExampleEvents == <<[time |-> 0, start |-> 0], [time |-> 500, start |-> 6]>>

\* C3: get_message_up_to returns message[:start] of the first listed event
\* whose time is strictly greater than seconds*1000 (an event at exactly
\* seconds*1000 is skipped) and the full message when there is none; for
\* 'hello world' with events [(0,0),(500,6)] that is 'hello ' at 0.0 s and
\* 'hello world' at 10.0 s.
C3_FirstLaterEventCuts ==
    al.done =>
        /\ al.r1 = ExpectedPrefix(al.message, al.e1, al.events)
        /\ al.r2 = ExpectedPrefix(al.message, al.e2, al.events)
        /\ (al.message = HelloWorld /\ al.events = ExampleEvents) =>
              /\ al.e1 = 0 => al.r1 = <<"h", "e", "l", "l", "o", " ">>
              /\ al.e2 = 10 * SecondsDen => al.r2 = HelloWorld
        /\ al.events = <<>> => al.r1 = al.message

\* C3 witness: the example at 0.0 s and 10.0 s, the event at time 0 skipped
C3_Witness ==
    /\ al.done
    /\ al.message = HelloWorld
    /\ al.events = ExampleEvents
    /\ al.e1 = 0
    /\ al.e2 = 10 * SecondsDen
    /\ al.r1 = <<"h", "e", "l", "l", "o", " ">>
    /\ al.r2 = HelloWorld

TimesSorted(events) ==
    \A i \in 1..Len(events), j \in 1..Len(events) :
        i <= j => events[i].time <= events[j].time
StartsSorted(events) ==
    \A i \in 1..Len(events), j \in 1..Len(events) :
        i <= j => events[i].start <= events[j].start

\* C4 as written: for events ordered by non-decreasing time and e1 <= e2,
\* the prefix for e1 is a prefix of the prefix for e2.
C4_Original_MonotoneInElapsed ==
    (al.done /\ TimesSorted(al.events) /\ al.e1 <= al.e2) =>
        IsPrefix(al.r1, al.r2)

\* C4 amended: for events ordered by non-decreasing time and by
\* non-decreasing (non-negative) start offset, and e1 <= e2, the prefix for
\* e1 is a prefix of the prefix for e2.
C4_MonotoneForOrderedStarts ==
    (al.done /\ TimesSorted(al.events) /\ StartsSorted(al.events)
        /\ al.e1 <= al.e2) =>
        IsPrefix(al.r1, al.r2)

\* C4 witness: ordered events, a later elapsed time, a strictly longer prefix
C4_Witness ==
    /\ al.done
    /\ Len(al.events) >= 2
    /\ TimesSorted(al.events)
    /\ StartsSorted(al.events)
    /\ al.e1 < al.e2
    /\ Len(al.r1) < Len(al.r2)
    /\ Len(al.r2) < Len(al.message)

(* ---------------------- claims on chunk_generator ---------------------- *)

\* the final chunk of call u has been yielded
HasFinal(u) == chunks[u] # <<>> /\ chunks[u][Len(chunks[u])].is_last
\* total length of the audio stream of call u
AudioLen(u) == Len(audio_stream[u].data)
CeilDiv(n, c) == (n + c - 1) \div c
\* length of the audio bytes a yielded payload carries
RawLen(chunk) ==
    Len(chunk) - (IF should_encode_as_wav THEN Len(WavHeader) ELSE 0)

\* C1 as written, for payloads without container encoding: once the final
\* chunk is out, the sequence has ceil(n/c) chunks when n > 0 and one empty
\* chunk when n = 0; non-final payloads have length c, the final one n mod c,
\* or c when n mod c = 0 and n > 0.
C1_Original_CeilChunks ==
    \A u \in Calls :
        (HasFinal(u) /\ ~should_encode_as_wav) =>
            LET n == AudioLen(u)
                c == chunk_size[u]
                k == Len(chunks[u])
            IN  /\ k = (IF n = 0 THEN 1 ELSE CeilDiv(n, c))
                /\ \A i \in 1..(k - 1) : Len(chunks[u][i].chunk) = c
                /\ Len(chunks[u][k].chunk) =
                      (IF n > 0 /\ n % c = 0 THEN c ELSE n % c)

\* C1 amended: once the final chunk is out, the sequence has floor(n/c) + 1
\* chunks: floor(n/c) non-final chunks carrying c audio bytes each, then the
\* final chunk carrying n mod c audio bytes (none when c divides n, n = 0
\* included).
C1_FloorPlusOneChunks ==
    \A u \in Calls :
        /\ \A i \in 1..Len(chunks[u]) :
              ~chunks[u][i].is_last => RawLen(chunks[u][i].chunk) = chunk_size[u]
        /\ HasFinal(u) =>
              LET n == AudioLen(u)
                  c == chunk_size[u]
                  k == Len(chunks[u])
              IN  /\ k = (n \div c) + 1
                  /\ RawLen(chunks[u][k].chunk) = n % c

\* C1 witness: one stream whose length is a multiple of the chunk size and
\* one whose length is not, both consumed to the final chunk
C1_Witness ==
    /\ HasFinal(1) /\ AudioLen(1) > 0 /\ AudioLen(1) % chunk_size[1] = 0
    /\ Len(chunks[1]) = CeilDiv(AudioLen(1), chunk_size[1]) + 1
    /\ HasFinal(2) /\ AudioLen(2) > chunk_size[2]
    /\ AudioLen(2) % chunk_size[2] # 0
    /\ Len(chunks[2]) = CeilDiv(AudioLen(2), chunk_size[2])

\* C2: exactly one yielded chunk is final and it is the last one yielded:
\* nothing follows a final chunk, and a sequence that ended ended on one.
C2_OneFinalChunkLast ==
    \A u \in Calls :
        /\ \A i \in 1..Len(chunks[u]) :
              chunks[u][i].is_last => i = Len(chunks[u])
        /\ pc[u] \in {"yieldedFinal", "finished"} <=>
              (HasFinal(u) /\ pc[u] # "closed")
        /\ pc[u] = "finished" =>
              Cardinality({i \in 1..Len(chunks[u]) : chunks[u][i].is_last}) = 1

\* C2 witness: a sequence of several chunks ran to its end
C2_Witness ==
    \E u \in Calls :
        /\ pc[u] = "finished"
        /\ Len(chunks[u]) >= 3
        /\ ~chunks[u][Len(chunks[u]) - 1].is_last

\* C5 as written (its release part): a sequence abandoned mid-stream, before
\* its final chunk, has had its audio stream closed exactly once.
C5_Original_ReleasedOnce ==
    \A u \in Calls :
        (pc[u] = "closed" /\ chunks[u] # <<>> /\ ~HasFinal(u)) =>
            audio_stream[u].closes = 1

\* C6 as written: a pull after the final chunk is reported as the error
\* StreamExhaustedError.
C6_Original_PullAfterFinalIsError ==
    \A u \in Calls :
        pc[u] = "finished" => lastPull[u] = "StreamExhaustedError"

\* C6 amended: once the final chunk is out, a further pull yields no chunk
\* and reads nothing: it ends the iteration with StopAsyncIteration, the
\* normal end-of-sequence signal, not with an error; the sequence is not
\* restarted and an ended sequence stays ended.
C6_PullAfterFinalStops ==
    /\ [](\A u \in Calls :
            pc[u] = "finished" =>
                HasFinal(u) /\ lastPull[u] = "StopAsyncIteration")
    /\ [][\A u \in Calls :
            HasFinal(u) =>
                /\ chunks'[u] = chunks[u]
                /\ reads'[u] = reads[u]
                /\ audio_stream'[u] = audio_stream[u]
                /\ pc'[u] \in {"yieldedFinal", "finished", "closed"}
                /\ pc[u] \in {"finished", "closed"} => pc'[u] = pc[u]
                /\ lastPull'[u] # lastPull[u] =>
                      lastPull'[u] = "StopAsyncIteration"]_vars

\* C6 witness: a sequence pulled once more after its final chunk
C6_Witness ==
    \E u \in Calls :
        /\ pc[u] = "finished"
        /\ lastPull[u] = "StopAsyncIteration"
        /\ Len(chunks[u]) >= 2

\* C7 as written: at most one read of an audio stream is outstanding, and
\* every read of it runs on the executor.
C7_Original_ReadsOnOneLane ==
    \A u \in Calls :
        /\ outstanding[u] <= 1
        /\ \A i \in 1..Len(reads[u]) : reads[u][i] = "executor"

\* C8 as written: no chunk read holds the event loop: while a read of a
\* call is outstanding the loop is free for the other calls.
C8_Original_ReadsOffTheLoop ==
    \A u \in Calls : outstanding[u] > 0 => loopBlocked # u

\* the word records of a speech marks stream, in stream order
WordLines(lines) ==
    LET idx == {i \in 1..Len(lines) : lines[i].kind = "word"}
        at(k) == CHOOSE i \in idx : Cardinality({j \in idx : j <= i}) = k
    IN  [k \in 1..Cardinality(idx) |->
            [time |-> lines[at(k)].time, start |-> lines[at(k)].start]]

\* pc values at which the caller holds the SynthesisResult
ResultStates ==
    {"returned", "awaitRead", "yielded", "inlineRead", "yieldedFinal",
     "finished", "closed"}
\* a request of call u the executor has not finished
RequestPending(kind, u) ==
    \/ Job(kind, u) \in running
    \/ \E i \in 1..Len(queue) : queue[i] = Job(kind, u)

\* C9: the caller holds a SynthesisResult only when the audio request and
\* the speech marks request have both completed and the whole speech marks
\* stream has been parsed into word_events.
C9_ResultAfterBothFetches ==
    \A u \in Calls :
        pc[u] \in ResultStates =>
            /\ audio_stream[u].id = u
            /\ ~RequestPending("synthesize", u)
            /\ ~RequestPending("get_speech_marks", u)
            /\ error[u] = None
            /\ word_events[u] = WordLines(marks_stream[u])
            /\ Len(word_events[u]) =
                  Cardinality({i \in 1..Len(marks_stream[u]) :
                                  marks_stream[u][i].kind # "blank"})

\* C9 witness: a result just returned, its two word events parsed
C9_Witness ==
    \E u \in Calls :
        /\ pc[u] = "returned"
        /\ Len(marks_stream[u]) = 3
        /\ word_events[u] = ExampleEvents

\* C10: the prefix a SynthesisResult answers for an elapsed time is the one
\* its text and speech marks fix, wherever the chunk sequence stands, and
\* the call changes nothing of the call, its streams, its chunk sequence or
\* the executor.
C10_AlignTextIndependent ==
    /\ [](alignOut.call # 0 =>
            alignOut.prefix =
                ExpectedPrefix(text[alignOut.call], alignOut.seconds,
                               WordLines(marks_stream[alignOut.call])))
    /\ [][alignOut' # alignOut =>
            UNCHANGED <<callVars, streamVars, genVars, execVars, loopBlocked>>]_vars

\* C10 witness: a prefix asked between two pulls, shorter than the text
C10_Witness ==
    \E u \in Calls :
        /\ alignOut.call = u
        /\ pc[u] = "yielded"
        /\ Len(alignOut.prefix) < Len(text[u])

(* --------------------- SpecConstruct: __init__ ------------------------- *)

\* PollySynthesizer(synthesizer_config) is constructed with a sampling rate
Construct(rate) ==
    /\ synth.state = "none"
    /\ synth' = Constructed(rate)
    /\ UNCHANGED <<should_encode_as_wav, requests, callVars, streamVars,
                   genVars, execVars, loopBlocked, alignOut, al>>

\* the steps of call u under a consumer that keeps pulling
PullingSteps(u) ==
    \/ \E c \in 1..MaxChunk : Call(u, TextOf(u), c)
    \/ \E n \in 0..MaxAudioLen, ok \in BOOLEAN : WorkerSynthesize(u, n, ok)
    \/ \E lines \in SpeechMarksOf(text[u]), ok \in BOOLEAN :
          WorkerSpeechMarks(u, lines, ok)
    \/ WorkerRead(u)
    \/ ResumeAudio(u)
    \/ ResumeMarks(u)
    \/ ParseAndReturn(u)
    \/ PullFirst(u)
    \/ ResumeRead(u)
    \/ PullNext(u)
    \/ InlineRead(u)
    \/ PullAfterFinal(u)
    \/ \E secs \in 0..MaxElapsed : AlignText(u, secs)

InitConstruct ==
    /\ should_encode_as_wav \in BOOLEAN
    /\ synth = NoSynth
    /\ requests = [u \in Calls |-> <<>>]
    /\ pc = [u \in Calls |-> "idle"]
    /\ text = [u \in Calls |-> <<>>]
    /\ chunk_size = [u \in Calls |-> 0]
    /\ result = [u \in Calls |-> Pending]
    /\ audio_stream = [u \in Calls |-> NoStream]
    /\ marks_stream = [u \in Calls |-> <<>>]
    /\ word_events = [u \in Calls |-> <<>>]
    /\ chunks = [u \in Calls |-> <<>>]
    /\ lastPull = [u \in Calls |-> None]
    /\ reads = [u \in Calls |-> <<>>]
    /\ outstanding = [u \in Calls |-> 0]
    /\ alignOut = NoAlign
    /\ error = [u \in Calls |-> None]
    /\ queue = <<>>
    /\ running = {}
    /\ loopBlocked = 0
    /\ al = AlignIdle

\* a synthesizer is constructed with some sampling rate and then serves one
\* call
NextConstruct ==
    \/ \E rate \in SamplingRates : Construct(rate)
    \/ WorkerStart
    \/ PullingSteps(1)

SpecConstruct == InitConstruct /\ [][NextConstruct]_vars

\* C11: construction with a sampling rate outside {8000, 16000} fails with
\* an error naming the rate, and then there is no instance: no call starts
\* and no request is ever sent with that rate; construction with 8000 or
\* 16000 gives an instance and no error.
C11_UnsupportedRateFailsConstruction ==
    /\ synth.state = "failed" <=>
          (synth.state # "none" /\ synth.asked \notin {8000, 16000})
    /\ synth.state = "failed" =>
          /\ Len(synth.error) = 2
          /\ synth.error[2] = synth.asked
          /\ \A u \in Calls : pc[u] = "idle" /\ requests[u] = <<>>
          /\ queue = <<>> /\ running = {}
    /\ synth.state = "ready" =>
          /\ synth.error = <<>>
          /\ synth.sampling_rate = synth.asked
    /\ \A u \in Calls : \A i \in 1..Len(requests[u]) :
          /\ requests[u][i].SampleRate \in {8000, 16000}
          /\ requests[u][i].SampleRate = synth.asked

\* C11 witness: construction with 22050 has failed
C11_Witness ==
    /\ synth.state = "failed"
    /\ synth.asked = 22050
    /\ synth.error = <<"Sampling rate not supported by AWS Polly", 22050>>

\* a speech marks stream with a record that is no JSON
HasBad(lines) == \E i \in 1..Len(lines) : lines[i].kind = "bad"

\* C12: a speech marks stream with an undecodable record fails the call with
\* the decoding error: no result is returned, no word events are kept and no
\* alignment is ever answered for the call; a stream whose records are
\* decodable or blank gives a result and no error.
C12_UndecodableRecordFailsCall ==
    \A u \in Calls :
        /\ HasBad(marks_stream[u]) =>
              /\ pc[u] \in {"readMarks", "raised"}
              /\ word_events[u] = <<>>
              /\ chunks[u] = <<>>
              /\ alignOut.call # u
              /\ pc[u] = "raised" => error[u] = "JSONDecodeError"
        /\ error[u] = "JSONDecodeError" => HasBad(marks_stream[u])
        /\ (marks_stream[u] # <<>> /\ ~HasBad(marks_stream[u])
                /\ pc[u] # "readMarks") =>
              pc[u] \in ResultStates /\ error[u] = None

\* C12 witness: one call failed on the record after a decodable one while
\* the other got its result from a stream with a blank record
C12_Witness ==
    \E u \in Calls, v \in Calls :
        /\ pc[u] = "raised"
        /\ error[u] = "JSONDecodeError"
        /\ marks_stream[u][1].kind = "word"
        /\ pc[v] = "returned"
        /\ \E i \in 1..Len(marks_stream[v]) : marks_stream[v][i].kind = "blank"

\* the requests of call u sent with the given output format
RequestsOf(u, format) ==
    {i \in 1..Len(requests[u]) : requests[u][i].OutputFormat = format}

\* C13: a failed audio or speech marks request ends the call with that very
\* error and without a result, and nothing is retried: a call sends each of
\* its two requests at most once.
C13_FailureSurfacesNoRetry ==
    /\ [](\A u \in Calls :
            /\ Cardinality(RequestsOf(u, "pcm")) <= 1
            /\ Cardinality(RequestsOf(u, "json")) <= 1
            /\ (result[u].done /\ ~result[u].ok) =>
                  pc[u] \in {"awaitAudio", "awaitMarks"}
            /\ error[u] = "CollaboratorError" =>
                  /\ pc[u] = "raised"
                  /\ word_events[u] = <<>>
                  /\ chunks[u] = <<>>
                  /\ alignOut.call # u)
    /\ [][\A u \in Calls :
            (result[u].done /\ ~result[u].ok /\ pc'[u] # pc[u]) =>
                /\ pc'[u] = "raised"
                /\ error'[u] = result[u].value
                /\ requests'[u] = requests[u]
                /\ queue' = queue]_vars

\* C13 witness: the speech marks request failed after the audio request had
\* succeeded, and the call raised
C13_Witness ==
    \E u \in Calls :
        /\ pc[u] = "raised"
        /\ error[u] = "CollaboratorError"
        /\ audio_stream[u].id = u
        /\ Len(requests[u]) = 2

\* the bytes of the audio stream of call u that its i-th read returns
BytesOfRead(u, i) ==
    LET data == audio_stream[u].data
        c == chunk_size[u]
    IN  [k \in 1..(IF i * c <= Len(data) THEN c
                   ELSE IF (i - 1) * c < Len(data) THEN Len(data) - (i - 1) * c
                   ELSE 0)
            |-> data[(i - 1) * c + k]]

\* C14: the is_last flag of every yielded chunk is fixed by the audio stream
\* and the chunk size alone, the same with and without WAV encoding; every
\* payload, the final one included, is the bytes of its read behind exactly
\* one WAV header with encoding, and exactly those bytes without.
C14_TransformChangesPayloadOnly ==
    \A u \in Calls : \A i \in 1..Len(chunks[u]) :
        /\ chunks[u][i].is_last = (Len(BytesOfRead(u, i)) # chunk_size[u])
        /\ should_encode_as_wav =>
              chunks[u][i].chunk = WavHeader \o BytesOfRead(u, i)
        /\ ~should_encode_as_wav =>
              chunks[u][i].chunk = BytesOfRead(u, i)

\* C14 witness: a WAV-encoded sequence with a full chunk and then a final
\* chunk that is the header alone
C14_Witness ==
    \E u \in Calls :
        /\ should_encode_as_wav
        /\ Len(chunks[u]) >= 2
        /\ HasFinal(u)
        /\ ~chunks[u][1].is_last
        /\ chunks[u][Len(chunks[u])].chunk = WavHeader

\* the audio bytes of a yielded payload: the payload without its WAV header
AudioOf(chunk) ==
    IF should_encode_as_wav THEN SubSeq(chunk, Len(WavHeader) + 1, Len(chunk))
    ELSE chunk

\* C15: under every interleaving of two calls on one synthesizer, a call's
\* chunks carry bytes of its own audio stream only, its stream is read by
\* its own generator only, its requests carry its own text, and an alignment
\* answered by its result is cut from its own text by its own word events.
C15_NoCrossCallSharing ==
    \A u \in Calls :
        /\ audio_stream[u].id \in {0, u}
        /\ \A i \in 1..Len(chunks[u]) :
              \A k \in 1..Len(AudioOf(chunks[u][i].chunk)) :
                  AudioOf(chunks[u][i].chunk)[k] \div 100 = u
        /\ audio_stream[u].pos =
              Min(Len(reads[u]) * chunk_size[u], AudioLen(u))
        /\ \A i \in 1..Len(requests[u]) : requests[u][i].Text = TextOf(u)
        /\ pc[u] \in ResultStates =>
              /\ marks_stream[u] \in SpeechMarksOf(TextOf(u))
              /\ word_events[u] = WordLines(marks_stream[u])
        /\ alignOut.call = u =>
              alignOut.prefix =
                  ExpectedPrefix(TextOf(u), alignOut.seconds, word_events[u])

\* C15 witness: both calls are in the middle of their chunk sequences, with
\* different word events, and one has answered an alignment
C15_Witness ==
    /\ pc[1] = "yielded"
    /\ pc[2] = "yielded"
    /\ word_events[1] # word_events[2]
    /\ alignOut.call = 1
    /\ Len(alignOut.prefix) < Len(text[1])

\* C16: every chunk comes from one read of at most chunk_size bytes: a read
\* of exactly chunk_size bytes gives a non-final chunk and leaves the
\* generator streaming, a shorter read (an empty one included) gives the
\* final chunk, and once the final chunk is out no read is outstanding and
\* the stream has been read exactly once per chunk.
C16_OneReadPerPull ==
    \A u \in Calls :
        /\ pc[u] \in {"yielded", "yieldedFinal", "finished"} =>
              Len(reads[u]) = Len(chunks[u])
        /\ \A i \in 1..Len(chunks[u]) :
              /\ Len(AudioOf(chunks[u][i].chunk)) <= chunk_size[u]
              /\ chunks[u][i].is_last <=>
                    Len(AudioOf(chunks[u][i].chunk)) < chunk_size[u]
        /\ pc[u] = "yielded" => ~HasFinal(u)
        /\ pc[u] = "yieldedFinal" => HasFinal(u)
        /\ HasFinal(u) =>
              /\ Len(reads[u]) = Len(chunks[u])
              /\ outstanding[u] = 0
              /\ ~RequestPending("read", u)
              /\ pc[u] \notin {"awaitRead", "inlineRead"}

\* C16 witness: two full reads and then an empty one, the last two made by
\* the generator itself
C16_Witness ==
    \E u \in Calls :
        /\ pc[u] = "yieldedFinal"
        /\ reads[u] = <<"executor", "loop", "loop">>
        /\ AudioOf(chunks[u][3].chunk) = <<>>
        /\ ~chunks[u][2].is_last

(* ----------------- SpecLive: a consumer that keeps pulling -------------- *)

\* one call whose consumer keeps pulling
NextLive ==
    \/ WorkerStart
    \/ PullingSteps(1)

\* the worker thread runs the work items it is given, the event loop resumes
\* a coroutine whose future is done, a blocking read returns, and the
\* consumer pulls again after each chunk
Fairness ==
    /\ WF_vars(WorkerStart)
    /\ \A u \in Calls :
          /\ WF_vars(WorkerRead(u))
          /\ WF_vars(PullFirst(u))
          /\ WF_vars(ResumeRead(u))
          /\ WF_vars(PullNext(u))
          /\ WF_vars(InlineRead(u))

SpecLive == Init /\ [][NextLive]_vars /\ Fairness

\* C17 as written (its bound, for a non-empty stream): the final chunk comes
\* after at most ceil(totalBytes / chunkSize) chunks.
C17_Original_AtMostCeilChunks ==
    \A u \in Calls :
        (HasFinal(u) /\ AudioLen(u) > 0) =>
            Len(chunks[u]) <= CeilDiv(AudioLen(u), chunk_size[u])

\* C17 amended: a consumer that keeps pulling eventually receives the final
\* chunk, and it does so after at most floor(totalBytes / chunkSize) + 1
\* chunks.
C17_FinalChunkWithinFloorPlusOne ==
    /\ \A u \in Calls : (pc[u] = "returned") ~> HasFinal(u)
    /\ [](\A u \in Calls :
            chunks[u] # <<>> =>
                Len(chunks[u]) <= (AudioLen(u) \div chunk_size[u]) + 1)

\* C17 witness: the final chunk arrived as chunk floor(n/c) + 1 of a stream
\* whose length is a multiple of the chunk size
C17_Witness ==
    \E u \in Calls :
        /\ HasFinal(u)
        /\ AudioLen(u) > 0
        /\ AudioLen(u) % chunk_size[u] = 0
        /\ Len(chunks[u]) = (AudioLen(u) \div chunk_size[u]) + 1

(* ------------------------- lazy production ------------------------------ *)

\* audio_buffer, the one local the generator keeps between yields: the bytes
\* of its latest read
audio_buffer(u) ==
    IF reads[u] = <<>> THEN <<>> ELSE BytesOfRead(u, Len(reads[u]))

\* the pulls of call u that asked the generator for a chunk
ChunkPulls(u) ==
    Len(chunks[u]) + (IF pc[u] \in {"awaitRead", "inlineRead"} THEN 1 ELSE 0)

MarksIssued(u) ==
    \/ RequestPending("get_speech_marks", u)
    \/ RequestsOf(u, "json") # {}

\* C19 as written: the two requests of a call are issued concurrently, so
\* while the audio request is outstanding the speech marks request has been
\* issued as well.
C19_Original_IssuedTogether ==
    \A u \in Calls : RequestPending("synthesize", u) => MarksIssued(u)

\* C19 amended: the two requests of a call are issued one after the other:
\* the speech marks request is issued only once the audio request has
\* completed with a response, the two are never outstanding at once, and
\* the executor runs at most max_workers work items at a time.
C19_RequestsInSequence ==
    /\ \A u \in Calls :
          /\ ~(RequestPending("synthesize", u)
                  /\ RequestPending("get_speech_marks", u))
          /\ MarksIssued(u) =>
                /\ ~RequestPending("synthesize", u)
                /\ RequestsOf(u, "pcm") # {}
                /\ audio_stream[u].id = u
          /\ pc[u] = "awaitAudio" => ~MarksIssued(u)
    /\ Cardinality(running) <= max_workers

\* C19 witness: the speech marks request of a call is running on the worker
\* after its audio request has come back
C19_Witness ==
    \E u \in Calls :
        /\ pc[u] = "awaitMarks"
        /\ Job("get_speech_marks", u) \in running
        /\ Len(requests[u]) = 2
        /\ audio_stream[u].id = u

(* ---------------------- the chunks carry the stream --------------------- *)

\* the payloads of a chunk sequence, joined in yield order
RECURSIVE Payloads(_)
Payloads(seq) ==
    IF seq = <<>> THEN <<>> ELSE Head(seq).chunk \o Payloads(Tail(seq))

\* C20: without WAV encoding the payloads yielded so far, joined in yield
\* order, are the bytes of the audio stream up to the end of the latest read
\* that was yielded, and once the final chunk is out they are the whole
\* stream: no byte is lost, repeated or moved, also between the first read
\* (on the executor) and the later ones (on the loop).
C20_PayloadsAreTheStream ==
    ~should_encode_as_wav =>
        \A u \in Calls :
            /\ IsPrefix(Payloads(chunks[u]), audio_stream[u].data)
            /\ Len(reads[u]) = Len(chunks[u]) =>
                  Payloads(chunks[u]) =
                      SubSeq(audio_stream[u].data, 1, audio_stream[u].pos)
            /\ HasFinal(u) => Payloads(chunks[u]) = audio_stream[u].data

\* C20 witness: a stream of three bytes came out whole in chunks of one,
\* the first read on the executor and the others on the loop
C20_Witness ==
    \E u \in Calls :
        /\ ~should_encode_as_wav
        /\ HasFinal(u)
        /\ AudioLen(u) = 3
        /\ chunk_size[u] = 1
        /\ reads[u] = <<"executor", "loop", "loop", "loop">>
        /\ Payloads(chunks[u]) = audio_stream[u].data

====
